---------------------------- MODULE Spec2Model ----------------------------
(***************************************************************************)
(* The per-tick state-update engine of the cat comfort game: the           *)
(* Temperature, Comfort, Interference and Timer systems and the            *)
(* GameStateManager variants that compose them.                            *)
(*                                                                         *)
(* Numbers.  The code computes with floating point seconds and with values *)
(* in [0,1].  Here a time is an integer number of tenths of a second and a *)
(* temperature or comfort is an integer number of hundredths, so           *)
(* 1.0 = 100, 0.8 = 80, 30 s = 300.  A rate "per second" of r/100 becomes  *)
(* r/10 hundredths per tenth of a second.  Math.random() is one of         *)
(* k / RandomScale for k in RandomDraws.                                   *)
(***************************************************************************)
EXTENDS Integers, Sequences, FiniteSets, TLC

VARIABLES
    manager,    \* the GameStateManager instance: its class and the configs it and its systems hold
    state,      \* the current GameState snapshot
    last,       \* the operation that produced `state`, and what it was applied to
    currentRound,   \* the round counter the game component keeps beside its game state
    redis,      \* the server's store: the PostConfig saved for each post
    requests    \* the server's requests in flight, each with what it has read so far

vars == <<manager, state, last, currentRound, redis, requests>>

\* What the server keeps; the client-side game never touches it.
serverVars == <<redis, requests>>

(***************************************************************************)
(* Configuration                                                           *)
(***************************************************************************)
TEMPERATURE_CHANGE_RATE == 5     \* 0.5 per second
TEMPERATURE_COOLING_RATE == 3    \* 0.3 per second
COMFORT_CHANGE_RATE == 2         \* 0.2 per second
GAME_DURATION == 300             \* 30 s
SUCCESS_HOLD_TIME == 50          \* 5 s
INITIAL_TEMPERATURE == 50        \* 0.5
TARGET_TEMPERATURE_MIN == 30     \* 0.3
TARGET_TEMPERATURE_MAX == 70     \* 0.7
TOLERANCE_WIDTH == 10            \* 0.1
INTERFERENCE_MIN_INTERVAL == 30  \* 3 s
INTERFERENCE_MAX_INTERVAL == 50  \* 5 s
INTERFERENCE_DURATION == 80      \* 8 s

GAME_CONFIG ==
    [ TEMPERATURE_CHANGE_RATE   |-> TEMPERATURE_CHANGE_RATE,
      TEMPERATURE_COOLING_RATE  |-> TEMPERATURE_COOLING_RATE,
      COMFORT_CHANGE_RATE       |-> COMFORT_CHANGE_RATE,
      GAME_DURATION             |-> GAME_DURATION,
      SUCCESS_HOLD_TIME         |-> SUCCESS_HOLD_TIME,
      INITIAL_TEMPERATURE       |-> INITIAL_TEMPERATURE,
      TARGET_TEMPERATURE_MIN    |-> TARGET_TEMPERATURE_MIN,
      TARGET_TEMPERATURE_MAX    |-> TARGET_TEMPERATURE_MAX,
      TOLERANCE_WIDTH           |-> TOLERANCE_WIDTH,
      INTERFERENCE_MIN_INTERVAL |-> INTERFERENCE_MIN_INTERVAL,
      INTERFERENCE_MAX_INTERVAL |-> INTERFERENCE_MAX_INTERVAL,
      INTERFERENCE_DURATION     |-> INTERFERENCE_DURATION ]

(***************************************************************************)
(* Inputs of the model                                                     *)
(***************************************************************************)
\* The elapsed times a tick is called with: 0, 2.5 s and 5 s (the manager takes
\* whatever the driver measured; a throttled driver or a request's deltaTime).
DeltaTimes == {0, 25, 50}

\* Math.random() returns k / RandomScale, one of 0, 0.25, 0.5 and 0.75.
RandomValues == {0, 1, 2, 3}
RandomScale == Cardinality(RandomValues)
\* The values drawn where an interval or a target is drawn, where one of two
\* outcomes is chosen, and where one of the three types is chosen.
RangeDraws == {0, 2}
CoinDraws == {0, 3}
TypeDraws == {0, 2, 3}

\* The GameStateManager classes behind the systems/GameStateManager import.
Managers == {"raddit", "client"}

Max(a, b) == IF a >= b THEN a ELSE b
Min(a, b) == IF a <= b THEN a ELSE b
Abs(a) == IF a >= 0 THEN a ELSE -a

(***************************************************************************)
(* TimerSystem                                                             *)
(***************************************************************************)
\* Faulty variant: the game clock does not run.
updateGameTimer_stopped(currentTimer, deltaTime) == currentTimer

updateGameTimer(currentTimer, deltaTime) == Max(0, currentTimer - deltaTime)

updateInterferenceTimer(currentTimer, deltaTime) == Max(0, currentTimer - deltaTime)

\* Faulty variant: below maximum comfort the hold timer runs down instead of
\* being reset.
updateSuccessHoldTimer_decays(currentTimer, isMaxComfort, deltaTime) ==
    IF isMaxComfort THEN currentTimer + deltaTime ELSE Max(0, currentTimer - deltaTime)

updateSuccessHoldTimer(currentTimer, isMaxComfort, deltaTime) ==
    IF isMaxComfort THEN currentTimer + deltaTime ELSE 0

isTimeFailure(gameTimer) == gameTimer <= 0

calculateNextRoundTime(round, baseTime, timeReduction, minTime) ==
    Max(minTime, baseTime - (round * timeReduction))

isSuccessHoldComplete(config, successHoldTimer) ==
    successHoldTimer >= config.SUCCESS_HOLD_TIME

(***************************************************************************)
(* TemperatureSystem                                                       *)
(***************************************************************************)
\* Faulty variant: isControlsReversed is not looked at.
updateTemperature_ignoresReversal(config, currentTemperature, isPlusHeld, isMinusHeld, isControlsReversed, deltaTime) ==
    LET newTemperature ==
            IF isPlusHeld
                THEN currentTemperature + config.TEMPERATURE_CHANGE_RATE * deltaTime
            ELSE IF isMinusHeld
                THEN currentTemperature - config.TEMPERATURE_CHANGE_RATE * deltaTime
            ELSE currentTemperature - config.TEMPERATURE_COOLING_RATE * deltaTime
    IN  Max(0, Min(100, newTemperature))

\* Faulty variant: the new temperature is returned as computed, without the
\* final Math.max(0, Math.min(1, ...)).
updateTemperature_unclamped(config, currentTemperature, isPlusHeld, isMinusHeld, isControlsReversed, deltaTime) ==
    LET effectivePlusHeld == IF isControlsReversed THEN isMinusHeld ELSE isPlusHeld
        effectiveMinusHeld == IF isControlsReversed THEN isPlusHeld ELSE isMinusHeld
    IN  IF effectivePlusHeld
            THEN currentTemperature + config.TEMPERATURE_CHANGE_RATE * deltaTime
        ELSE IF effectiveMinusHeld
            THEN currentTemperature - config.TEMPERATURE_CHANGE_RATE * deltaTime
        ELSE currentTemperature - config.TEMPERATURE_COOLING_RATE * deltaTime

updateTemperature(config, currentTemperature, isPlusHeld, isMinusHeld, isControlsReversed, deltaTime) ==
    LET effectivePlusHeld == IF isControlsReversed THEN isMinusHeld ELSE isPlusHeld
        effectiveMinusHeld == IF isControlsReversed THEN isPlusHeld ELSE isMinusHeld
        newTemperature ==
            IF effectivePlusHeld
                THEN currentTemperature + config.TEMPERATURE_CHANGE_RATE * deltaTime
            ELSE IF effectiveMinusHeld
                THEN currentTemperature - config.TEMPERATURE_CHANGE_RATE * deltaTime
            ELSE currentTemperature - config.TEMPERATURE_COOLING_RATE * deltaTime
    IN  Max(0, Min(100, newTemperature))

generateRandomTargetTemperature(config, random) ==
    (random * (config.TARGET_TEMPERATURE_MAX - config.TARGET_TEMPERATURE_MIN))
        \div RandomScale + config.TARGET_TEMPERATURE_MIN

\* Faulty variant: the boundary of the tolerance band is out of range.
isTemperatureInRange_exclusive(currentTemperature, targetTemperature, toleranceWidth) ==
    Abs(currentTemperature - targetTemperature) < toleranceWidth

isTemperatureInRange(currentTemperature, targetTemperature, toleranceWidth) ==
    Abs(currentTemperature - targetTemperature) <= toleranceWidth

(***************************************************************************)
(* ComfortSystem                                                           *)
(***************************************************************************)
updateComfort(config, currentComfort, isInToleranceRange, deltaTime) ==
    LET newComfort ==
            IF isInToleranceRange
                THEN currentComfort + config.COMFORT_CHANGE_RATE * deltaTime
                ELSE currentComfort - config.COMFORT_CHANGE_RATE * deltaTime
    IN  Max(0, Min(100, newComfort))

isSuccessConditionMet(comfortLevel) == comfortLevel >= 80

(***************************************************************************)
(* InterferenceSystem                                                      *)
(***************************************************************************)
InterferenceTypes == <<"controls_reversed", "temperature_shock", "bubble_obstruction">>

generateRandomInterferenceInterval(config, random) ==
    (random * (config.INTERFERENCE_MAX_INTERVAL - config.INTERFERENCE_MIN_INTERVAL))
        \div RandomScale + config.INTERFERENCE_MIN_INTERVAL

getRandomInterferenceType(random) ==
    InterferenceTypes[((random * Len(InterferenceTypes)) \div RandomScale) + 1]

createInterferenceEvent(config, type) ==
    [ type          |-> type,
      isActive      |-> TRUE,
      duration      |-> config.INTERFERENCE_DURATION,
      remainingTime |-> config.INTERFERENCE_DURATION ]

clearInterferenceEvent ==
    [ type |-> "none", isActive |-> FALSE, duration |-> 0, remainingTime |-> 0 ]

\* Math.random() > 0.5 ? 0.9 : 0.1
applyTemperatureShock(random) == IF 2 * random > RandomScale THEN 90 ELSE 10

\* Faulty variant: an event that ran out is switched off but keeps its type.
updateInterferenceEvent_keepsType(interferenceEvent, deltaTime) ==
    IF ~interferenceEvent.isActive
        THEN interferenceEvent
        ELSE LET newRemainingTime == Max(0, interferenceEvent.remainingTime - deltaTime)
             IN  [interferenceEvent EXCEPT !.remainingTime = newRemainingTime,
                                           !.isActive = newRemainingTime > 0]

updateInterferenceEvent(interferenceEvent, deltaTime) ==
    IF ~interferenceEvent.isActive
        THEN interferenceEvent
        ELSE LET newRemainingTime == Max(0, interferenceEvent.remainingTime - deltaTime)
             IN  IF newRemainingTime <= 0
                     THEN clearInterferenceEvent
                     ELSE [interferenceEvent EXCEPT !.remainingTime = newRemainingTime]

\* declared by the InterferenceSystem; no handleCenterButtonClick calls it
canBeClearedByClick(type) == type # "controls_reversed"

\* Faulty variant: the trigger waits for a timer below 0, which the clamped
\* timer never is.
shouldTriggerInterference_strict(interferenceTimer, isInterferenceActive) ==
    interferenceTimer < 0 /\ ~isInterferenceActive

\* Faulty variant: the trigger looks at the timer only.
shouldTriggerInterference_timerOnly(interferenceTimer, isInterferenceActive) ==
    interferenceTimer <= 0

shouldTriggerInterference(interferenceTimer, isInterferenceActive) ==
    interferenceTimer <= 0 /\ ~isInterferenceActive

(***************************************************************************)
(* GameStateManager: construction, shared by the classes                   *)
(***************************************************************************)
\* new GameStateManager(config): the manager and each system keep the config.
GameStateManager(impl, config) ==
    [ impl               |-> impl,
      config             |-> config,
      temperatureSystem  |-> config,
      comfortSystem      |-> config,
      interferenceSystem |-> config,
      timerSystem        |-> config ]

determineGameResult(comfortLevel) ==
    IF isSuccessConditionMet(comfortLevel) THEN "success" ELSE "failure"

(***************************************************************************)
(* GameStateManager of raddit/src/client/systems                           *)
(***************************************************************************)
createInitialState_raddit(m, rnd) ==
    [ currentTemperature |-> m.config.INITIAL_TEMPERATURE,
      targetTemperature  |-> generateRandomTargetTemperature(m.temperatureSystem, rnd.target),
      toleranceWidth     |-> m.config.TOLERANCE_WIDTH,
      currentComfort     |-> 50,
      gameTimer          |-> m.config.GAME_DURATION,
      successHoldTimer   |-> 0,
      isPlusHeld         |-> FALSE,
      isMinusHeld        |-> FALSE,
      gameStatus         |-> "playing",
      interferenceEvent  |-> clearInterferenceEvent,
      interferenceTimer  |-> generateRandomInterferenceInterval(m.interferenceSystem, rnd.interval),
      isControlsReversed |-> FALSE ]

\* the "should a new interference be triggered" block of handleInterferenceEvents
triggerInterference_raddit(m, s, rnd) ==
    IF shouldTriggerInterference(s.interferenceTimer, s.interferenceEvent.isActive)
        THEN LET interferenceType == getRandomInterferenceType(rnd.type)
                 s1 == [s EXCEPT !.interferenceEvent =
                           createInterferenceEvent(m.interferenceSystem, interferenceType)]
                 s2 == CASE interferenceType = "controls_reversed" ->
                                [s1 EXCEPT !.isControlsReversed = TRUE]
                         [] interferenceType = "temperature_shock" ->
                                [s1 EXCEPT !.targetTemperature = applyTemperatureShock(rnd.shock)]
                         [] OTHER -> s1
             IN  [s2 EXCEPT !.interferenceTimer =
                     generateRandomInterferenceInterval(m.interferenceSystem, rnd.interval)]
        ELSE s

\* Faulty variant: the expiry of an event does not restore the controls.
handleInterferenceEvents_raddit_noRestore(m, s, deltaTime, rnd) ==
    triggerInterference_raddit(m,
        [s EXCEPT !.interferenceEvent = updateInterferenceEvent(s.interferenceEvent, deltaTime)],
        rnd)

handleInterferenceEvents_raddit(m, s, deltaTime, rnd) ==
    LET \* update the current event
        s1 == [s EXCEPT !.interferenceEvent =
                  updateInterferenceEvent(s.interferenceEvent, deltaTime)]
        \* the event ended: controls back to normal
        s2 == IF ~s1.interferenceEvent.isActive /\ s.interferenceEvent.isActive
                  THEN [s1 EXCEPT !.isControlsReversed = FALSE]
                  ELSE s1
    IN  triggerInterference_raddit(m, s2, rnd)

\* updateGameState once the state is known to be playing
updatePlaying_raddit(m, currentState, deltaTime, rnd) ==
    LET s1 == [currentState EXCEPT
                  !.gameTimer = updateGameTimer(@, deltaTime),
                  !.interferenceTimer = updateInterferenceTimer(@, deltaTime)]
    IN  IF isTimeFailure(s1.gameTimer)
            THEN [s1 EXCEPT !.gameStatus = determineGameResult(s1.currentComfort)]
            ELSE
    LET s2 == handleInterferenceEvents_raddit(m, s1, deltaTime, rnd)
        s3 == [s2 EXCEPT !.currentTemperature =
                  updateTemperature(m.temperatureSystem, s2.currentTemperature,
                                    s2.isPlusHeld, s2.isMinusHeld,
                                    s2.isControlsReversed, deltaTime)]
        isInToleranceRange ==
            isTemperatureInRange(s3.currentTemperature, s3.targetTemperature, s3.toleranceWidth)
        s4 == [s3 EXCEPT !.currentComfort =
                  updateComfort(m.comfortSystem, s3.currentComfort, isInToleranceRange, deltaTime)]
        isMaxComfort == s4.currentComfort >= 100
        s5 == [s4 EXCEPT !.successHoldTimer =
                  updateSuccessHoldTimer(s4.successHoldTimer, isMaxComfort, deltaTime)]
    IN  IF isSuccessHoldComplete(m.timerSystem, s5.successHoldTimer)
            THEN [s5 EXCEPT !.gameStatus = "success"]
            ELSE s5

\* Faulty variant: only a failed round is frozen, a won round goes on ticking.
updateGameState_raddit_successNotFinal(m, currentState, deltaTime, rnd) ==
    IF currentState.gameStatus = "failure"
        THEN currentState
        ELSE updatePlaying_raddit(m, currentState, deltaTime, rnd)

updateGameState_raddit(m, currentState, deltaTime, rnd) ==
    IF currentState.gameStatus # "playing"
        THEN currentState
        ELSE updatePlaying_raddit(m, currentState, deltaTime, rnd)

\* Faulty variant: clearing the interference also releases the two controls.
handleCenterButtonClick_raddit_releasesControls(m, currentState, rnd) ==
    IF ~currentState.interferenceEvent.isActive
        THEN currentState
        ELSE [currentState EXCEPT
                 !.interferenceEvent = clearInterferenceEvent,
                 !.isControlsReversed = FALSE,
                 !.isPlusHeld = FALSE,
                 !.isMinusHeld = FALSE,
                 !.interferenceTimer =
                     generateRandomInterferenceInterval(m.interferenceSystem, rnd.interval)]

handleCenterButtonClick_raddit(m, currentState, rnd) ==
    IF ~currentState.interferenceEvent.isActive
        THEN currentState
        ELSE [currentState EXCEPT
                 !.interferenceEvent = clearInterferenceEvent,
                 !.isControlsReversed = FALSE,
                 !.interferenceTimer =
                     generateRandomInterferenceInterval(m.interferenceSystem, rnd.interval)]

(***************************************************************************)
(* GameStateManager of src/client/systems                                  *)
(***************************************************************************)
createInitialState_client(m, rnd) ==
    [ currentTemperature |-> m.config.INITIAL_TEMPERATURE,
      targetTemperature  |-> generateRandomTargetTemperature(m.temperatureSystem, rnd.target),
      toleranceWidth     |-> m.config.TOLERANCE_WIDTH,
      currentComfort     |-> 0,
      gameTimer          |-> m.config.GAME_DURATION,
      successHoldTimer   |-> 0,
      isPlusHeld         |-> FALSE,
      isMinusHeld        |-> FALSE,
      gameStatus         |-> "playing",
      interferenceEvent  |-> clearInterferenceEvent,
      interferenceTimer  |-> generateRandomInterferenceInterval(m.interferenceSystem, rnd.interval),
      isControlsReversed |-> FALSE,
      speedMultiplier    |-> 100 ]     \* 1.0

handleInterferenceEvents_client(m, s, deltaTime, rnd) ==
    LET \* update the existing event; when it ended, reset and reseed the timer
        updatedEvent == updateInterferenceEvent(s.interferenceEvent, deltaTime)
        s1 == IF s.interferenceEvent.isActive
                  THEN IF ~updatedEvent.isActive
                           THEN [s EXCEPT
                                    !.isControlsReversed = FALSE,
                                    !.speedMultiplier = 100,
                                    !.interferenceTimer =
                                        generateRandomInterferenceInterval(
                                            m.interferenceSystem, rnd.expiry),
                                    !.interferenceEvent = updatedEvent]
                           ELSE [s EXCEPT !.interferenceEvent = updatedEvent]
                  ELSE s
    IN  IF shouldTriggerInterference(s1.interferenceTimer, s1.interferenceEvent.isActive)
            THEN LET interferenceType == getRandomInterferenceType(rnd.type)
                     newEvent == createInterferenceEvent(m.interferenceSystem, interferenceType)
                     s2 == CASE interferenceType = "controls_reversed" ->
                                    [s1 EXCEPT !.isControlsReversed = TRUE]
                             [] interferenceType = "temperature_shock" ->
                                    [s1 EXCEPT !.currentTemperature = applyTemperatureShock(rnd.shock)]
                             [] OTHER -> s1
                 IN  [s2 EXCEPT !.interferenceEvent = newEvent]
            ELSE s1

\* updateGameState once the state is known to be playing
updatePlaying_client(m, currentState, deltaTime, rnd) ==
    LET newGameTimer == updateGameTimer(currentState.gameTimer, deltaTime)
        newInterferenceTimer == updateInterferenceTimer(currentState.interferenceTimer, deltaTime)
        newState == handleInterferenceEvents_client(m,
                        [currentState EXCEPT !.gameTimer = newGameTimer,
                                             !.interferenceTimer = newInterferenceTimer],
                        deltaTime, rnd)
        effectiveDeltaTime == (deltaTime * newState.speedMultiplier) \div 100
        newTemperature ==
            updateTemperature(m.temperatureSystem, newState.currentTemperature,
                              newState.isPlusHeld, newState.isMinusHeld,
                              newState.isControlsReversed, effectiveDeltaTime)
        isInRange == isTemperatureInRange(newTemperature, newState.targetTemperature,
                                          newState.toleranceWidth)
        newComfort == updateComfort(m.comfortSystem, newState.currentComfort,
                                    isInRange, effectiveDeltaTime)
        isMaxComfort == newComfort >= 100
        newSuccessHoldTimer ==
            updateSuccessHoldTimer(newState.successHoldTimer, isMaxComfort, deltaTime)
        newGameStatus ==
            IF isTimeFailure(newGameTimer) THEN "failure"
            ELSE IF isSuccessHoldComplete(m.timerSystem, newSuccessHoldTimer) THEN "success"
            ELSE newState.gameStatus
    IN  [newState EXCEPT
            !.currentTemperature = newTemperature,
            !.currentComfort = newComfort,
            !.gameTimer = newGameTimer,
            !.successHoldTimer = newSuccessHoldTimer,
            !.gameStatus = newGameStatus]

\* Faulty variant: no early return for a state that is not playing.
updateGameState_client_unfrozen(m, currentState, deltaTime, rnd) ==
    updatePlaying_client(m, currentState, deltaTime, rnd)

updateGameState_client(m, currentState, deltaTime, rnd) ==
    IF currentState.gameStatus # "playing"
        THEN currentState
        ELSE updatePlaying_client(m, currentState, deltaTime, rnd)

handleCenterButtonClick_client(m, currentState, rnd) ==
    IF ~currentState.interferenceEvent.isActive
        THEN currentState
        ELSE [currentState EXCEPT
                 !.interferenceEvent = clearInterferenceEvent,
                 !.isControlsReversed = FALSE,
                 !.speedMultiplier = 100,
                 !.interferenceTimer =
                     generateRandomInterferenceInterval(m.interferenceSystem, rnd.interval)]

(***************************************************************************)
(* GameStateManager of src/client/ConsolidatedGame.tsx                     *)
(***************************************************************************)
createInitialState_consolidated(m, rnd) ==
    [ currentTemperature |-> m.config.INITIAL_TEMPERATURE,
      targetTemperature  |-> generateRandomTargetTemperature(m.temperatureSystem, rnd.target),
      toleranceWidth     |-> m.config.TOLERANCE_WIDTH,
      currentComfort     |-> 50,
      gameTimer          |-> m.config.GAME_DURATION,
      successHoldTimer   |-> 0,
      isPlusHeld         |-> FALSE,
      isMinusHeld        |-> FALSE,
      gameStatus         |-> "playing",
      interferenceEvent  |-> clearInterferenceEvent,
      interferenceTimer  |-> generateRandomInterferenceInterval(m.interferenceSystem, rnd.interval),
      isControlsReversed |-> FALSE ]

updateGameState_consolidated(m, currentState, deltaTime, rnd) ==
    IF currentState.gameStatus # "playing"
        THEN currentState
        ELSE
    LET s1 == [currentState EXCEPT
                  !.gameTimer = updateGameTimer(@, deltaTime),
                  !.interferenceTimer = updateInterferenceTimer(@, deltaTime)]
    IN  IF isTimeFailure(s1.gameTimer)
            THEN [s1 EXCEPT !.gameStatus =
                     IF s1.currentComfort >= 80 THEN "success" ELSE "failure"]
            ELSE
    LET \* a new interference is triggered; an active one is left as it is
        s2 == IF shouldTriggerInterference(s1.interferenceTimer, s1.interferenceEvent.isActive)
                  THEN LET interferenceType == getRandomInterferenceType(rnd.type)
                           t1 == [s1 EXCEPT !.interferenceEvent =
                                     createInterferenceEvent(m.interferenceSystem, interferenceType)]
                       IN  CASE interferenceType = "controls_reversed" ->
                                    [t1 EXCEPT !.isControlsReversed = TRUE]
                             [] interferenceType = "temperature_shock" ->
                                    [t1 EXCEPT !.targetTemperature = applyTemperatureShock(rnd.shock)]
                             [] OTHER -> t1
                  ELSE s1
        s3 == [s2 EXCEPT !.currentTemperature =
                  updateTemperature(m.temperatureSystem, s2.currentTemperature,
                                    s2.isPlusHeld, s2.isMinusHeld,
                                    s2.isControlsReversed, deltaTime)]
        isInToleranceRange ==
            isTemperatureInRange(s3.currentTemperature, s3.targetTemperature, s3.toleranceWidth)
        s4 == [s3 EXCEPT !.currentComfort =
                  updateComfort(m.comfortSystem, s3.currentComfort, isInToleranceRange, deltaTime)]
        isMaxComfort == s4.currentComfort >= 100
    IN  [s4 EXCEPT !.successHoldTimer =
            updateSuccessHoldTimer(s4.successHoldTimer, isMaxComfort, deltaTime)]

handleCenterButtonClick_consolidated(m, currentState, rnd) ==
    IF ~currentState.interferenceEvent.isActive
        THEN currentState
        ELSE [currentState EXCEPT
                 !.interferenceEvent = clearInterferenceEvent,
                 !.isControlsReversed = FALSE,
                 !.interferenceTimer =
                     generateRandomInterferenceInterval(m.interferenceSystem, rnd.interval)]

(***************************************************************************)
(* GameStateManager of src/client/CatComfortGame.tsx                       *)
(***************************************************************************)
createInitialState_catcomfort(m, rnd) ==
    [ currentTemperature |-> m.config.INITIAL_TEMPERATURE,
      targetTemperature  |-> generateRandomTargetTemperature(m.temperatureSystem, rnd.target),
      toleranceWidth     |-> m.config.TOLERANCE_WIDTH,
      currentComfort     |-> 50,
      gameTimer          |-> m.config.GAME_DURATION,
      successHoldTimer   |-> 0,
      isPlusHeld         |-> FALSE,
      isMinusHeld        |-> FALSE,
      gameStatus         |-> "playing",
      interferenceEvent  |-> clearInterferenceEvent,
      interferenceTimer  |-> generateRandomInterferenceInterval(m.interferenceSystem, rnd.interval),
      isControlsReversed |-> FALSE ]

handleInterferenceEvents_catcomfort(m, s, deltaTime, rnd) ==
    LET \* update the current event
        s1 == [s EXCEPT !.interferenceEvent =
                  updateInterferenceEvent(s.interferenceEvent, deltaTime)]
        \* the event ended: controls back to normal
        s2 == IF ~s1.interferenceEvent.isActive /\ s.interferenceEvent.isActive
                  THEN [s1 EXCEPT !.isControlsReversed = FALSE]
                  ELSE s1
    IN  IF shouldTriggerInterference(s2.interferenceTimer, s2.interferenceEvent.isActive)
            THEN LET interferenceType == getRandomInterferenceType(rnd.type)
                     t1 == [s2 EXCEPT !.interferenceEvent =
                               createInterferenceEvent(m.interferenceSystem, interferenceType)]
                     t2 == CASE interferenceType = "controls_reversed" ->
                                    [t1 EXCEPT !.isControlsReversed = TRUE]
                             [] interferenceType = "temperature_shock" ->
                                    [t1 EXCEPT !.targetTemperature = applyTemperatureShock(rnd.shock)]
                             [] OTHER -> t1
                 IN  [t2 EXCEPT !.interferenceTimer =
                         generateRandomInterferenceInterval(m.interferenceSystem, rnd.interval)]
            ELSE s2

\* the hold timer is kept, but nothing is done when it completes
updateGameState_catcomfort(m, currentState, deltaTime, rnd) ==
    IF currentState.gameStatus # "playing"
        THEN currentState
        ELSE
    LET s1 == [currentState EXCEPT
                  !.gameTimer = updateGameTimer(@, deltaTime),
                  !.interferenceTimer = updateInterferenceTimer(@, deltaTime)]
    IN  IF isTimeFailure(s1.gameTimer)
            THEN [s1 EXCEPT !.gameStatus =
                     IF s1.currentComfort >= 80 THEN "success" ELSE "failure"]
            ELSE
    LET s2 == handleInterferenceEvents_catcomfort(m, s1, deltaTime, rnd)
        s3 == [s2 EXCEPT !.currentTemperature =
                  updateTemperature(m.temperatureSystem, s2.currentTemperature,
                                    s2.isPlusHeld, s2.isMinusHeld,
                                    s2.isControlsReversed, deltaTime)]
        isInToleranceRange ==
            isTemperatureInRange(s3.currentTemperature, s3.targetTemperature, s3.toleranceWidth)
        s4 == [s3 EXCEPT !.currentComfort =
                  updateComfort(m.comfortSystem, s3.currentComfort, isInToleranceRange, deltaTime)]
        isMaxComfort == s4.currentComfort >= 100
    IN  [s4 EXCEPT !.successHoldTimer =
            updateSuccessHoldTimer(s4.successHoldTimer, isMaxComfort, deltaTime)]

handleCenterButtonClick_catcomfort(m, currentState, rnd) ==
    IF ~currentState.interferenceEvent.isActive
        THEN currentState
        ELSE [currentState EXCEPT
                 !.interferenceEvent = clearInterferenceEvent,
                 !.isControlsReversed = FALSE,
                 !.interferenceTimer =
                     generateRandomInterferenceInterval(m.interferenceSystem, rnd.interval)]

(***************************************************************************)
(* GameStateManager of the server (server/core/post)                       *)
(***************************************************************************)
createInitialState_server(m, rnd) ==
    [ currentTemperature |-> m.config.INITIAL_TEMPERATURE,
      targetTemperature  |-> generateRandomTargetTemperature(m.temperatureSystem, rnd.target),
      toleranceWidth     |-> m.config.TOLERANCE_WIDTH,
      currentComfort     |-> 50,
      gameTimer          |-> m.config.GAME_DURATION,
      successHoldTimer   |-> 0,
      isPlusHeld         |-> FALSE,
      isMinusHeld        |-> FALSE,
      gameStatus         |-> "playing",
      interferenceEvent  |-> clearInterferenceEvent,
      interferenceTimer  |-> generateRandomInterferenceInterval(m.interferenceSystem, rnd.interval),
      isControlsReversed |-> FALSE ]

\* no event is aged, no timer is reseeded at a trigger, no hold timer is kept
updateGameState_server(m, currentState, deltaTime, rnd) ==
    IF currentState.gameStatus # "playing"
        THEN currentState
        ELSE
    LET s1 == [currentState EXCEPT
                  !.gameTimer = Max(0, @ - deltaTime),
                  !.interferenceTimer = Max(0, @ - deltaTime)]
    IN  IF s1.gameTimer <= 0
            THEN [s1 EXCEPT !.gameStatus =
                     IF s1.currentComfort >= 80 THEN "success" ELSE "failure"]
            ELSE
    LET s2 == IF s1.interferenceTimer <= 0 /\ ~s1.interferenceEvent.isActive
                  THEN LET interferenceType == getRandomInterferenceType(rnd.type)
                           t1 == [s1 EXCEPT !.interferenceEvent =
                                     [ type          |-> interferenceType,
                                       isActive      |-> TRUE,
                                       duration      |-> m.config.INTERFERENCE_DURATION,
                                       remainingTime |-> m.config.INTERFERENCE_DURATION ]]
                       IN  CASE interferenceType = "controls_reversed" ->
                                    [t1 EXCEPT !.isControlsReversed = TRUE]
                             [] interferenceType = "temperature_shock" ->
                                    [t1 EXCEPT !.targetTemperature = applyTemperatureShock(rnd.shock)]
                             [] OTHER -> t1
                  ELSE s1
        s3 == [s2 EXCEPT !.currentTemperature =
                  updateTemperature(m.temperatureSystem, s2.currentTemperature,
                                    s2.isPlusHeld, s2.isMinusHeld,
                                    s2.isControlsReversed, deltaTime)]
        isInToleranceRange ==
            isTemperatureInRange(s3.currentTemperature, s3.targetTemperature, s3.toleranceWidth)
    IN  [s3 EXCEPT !.currentComfort =
            updateComfort(m.comfortSystem, s3.currentComfort, isInToleranceRange, deltaTime)]

handleCenterButtonClick_server(m, currentState, rnd) ==
    IF ~currentState.interferenceEvent.isActive
        THEN currentState
        ELSE [currentState EXCEPT
                 !.interferenceEvent = clearInterferenceEvent,
                 !.isControlsReversed = FALSE,
                 !.interferenceTimer =
                     generateRandomInterferenceInterval(m.interferenceSystem, rnd.interval)]

(***************************************************************************)
(* updateConfig of the classes                                             *)
(***************************************************************************)
updateConfig_raddit(m, newConfig) ==
    [m EXCEPT !.config = newConfig, !.timerSystem = newConfig]

updateConfig_client(m, newConfig) ==
    [m EXCEPT !.config = newConfig,
              !.temperatureSystem = newConfig,
              !.comfortSystem = newConfig,
              !.interferenceSystem = newConfig,
              !.timerSystem = newConfig]

updateConfig_consolidated(m, newConfig) ==
    [m EXCEPT !.config = newConfig, !.timerSystem = newConfig]

updateConfig_catcomfort(m, newConfig) ==
    [m EXCEPT !.config = newConfig, !.timerSystem = newConfig]

updateConfig_server(m, newConfig) == [m EXCEPT !.config = newConfig]

(***************************************************************************)
(* The manager's interface, dispatched on the class of the instance        *)
(***************************************************************************)
createInitialState(m, rnd) ==
    CASE m.impl = "raddit" -> createInitialState_raddit(m, rnd)
      [] m.impl = "client" -> createInitialState_client(m, rnd)
      [] m.impl = "consolidated" -> createInitialState_consolidated(m, rnd)
      [] m.impl = "catcomfort" -> createInitialState_catcomfort(m, rnd)
      [] m.impl = "server" -> createInitialState_server(m, rnd)

updateGameState(m, currentState, deltaTime, rnd) ==
    CASE m.impl = "raddit" -> updateGameState_raddit(m, currentState, deltaTime, rnd)
      [] m.impl = "client" -> updateGameState_client(m, currentState, deltaTime, rnd)
      [] m.impl = "consolidated" ->
             updateGameState_consolidated(m, currentState, deltaTime, rnd)
      [] m.impl = "catcomfort" ->
             updateGameState_catcomfort(m, currentState, deltaTime, rnd)
      [] m.impl = "server" -> updateGameState_server(m, currentState, deltaTime, rnd)

handleCenterButtonClick(m, currentState, rnd) ==
    CASE m.impl = "raddit" -> handleCenterButtonClick_raddit(m, currentState, rnd)
      [] m.impl = "client" -> handleCenterButtonClick_client(m, currentState, rnd)
      [] m.impl = "consolidated" -> handleCenterButtonClick_consolidated(m, currentState, rnd)
      [] m.impl = "catcomfort" -> handleCenterButtonClick_catcomfort(m, currentState, rnd)
      [] m.impl = "server" -> handleCenterButtonClick_server(m, currentState, rnd)

updateConfig(m, newConfig) ==
    CASE m.impl = "raddit" -> updateConfig_raddit(m, newConfig)
      [] m.impl = "client" -> updateConfig_client(m, newConfig)
      [] m.impl = "consolidated" -> updateConfig_consolidated(m, newConfig)
      [] m.impl = "catcomfort" -> updateConfig_catcomfort(m, newConfig)
      [] m.impl = "server" -> updateConfig_server(m, newConfig)

resetGameState(m, rnd) == createInitialState(m, rnd)

(***************************************************************************)
(* The random numbers one call may draw                                    *)
(***************************************************************************)
InitDraws == [target : RangeDraws, interval : RangeDraws]
TickDraws == [type : TypeDraws, shock : CoinDraws,
              interval : RangeDraws, expiry : RangeDraws]
ClickDraws == [interval : RangeDraws]

(***************************************************************************)
(* The state machine: a driver that ticks, and an input layer that presses *)
(* and releases the two controls and clicks the center button.             *)
(***************************************************************************)
\* What `last` records of an operation: which one, and the gameStatus and the
\* interference type of the state it was applied to.
Applied(op) ==
    [op |-> op, status |-> state.gameStatus, event |-> state.interferenceEvent.type]

InitWith(impls) ==
    \E impl \in impls, rnd \in InitDraws :
        /\ manager = GameStateManager(impl, GAME_CONFIG)
        /\ state = createInitialState(manager, rnd)
        /\ last = [op |-> "create", status |-> "playing", event |-> "none"]
        /\ currentRound = 1
        /\ redis = <<>>
        /\ requests = {}

Init == InitWith(Managers)

\* the driver calls updateGameState(state, dt)
Tick ==
    \E deltaTime \in DeltaTimes :
        /\ state' \in {updateGameState(manager, state, deltaTime, rnd) : rnd \in TickDraws}
        /\ last' = Applied("tick")
        /\ UNCHANGED <<manager, currentRound, serverVars>>

\* the center button
CenterClick ==
    /\ state' \in {handleCenterButtonClick(manager, state, rnd) : rnd \in ClickDraws}
    /\ last' = Applied("click")
    /\ UNCHANGED <<manager, currentRound, serverVars>>

\* handlePlusPress / handlePlusRelease
PlusButton ==
    \E isPressed \in BOOLEAN :
        /\ state' = [state EXCEPT !.isPlusHeld = isPressed]
        /\ last' = Applied("button")
        /\ UNCHANGED <<manager, currentRound, serverVars>>

\* handleMinusPress / handleMinusRelease
MinusButton ==
    \E isPressed \in BOOLEAN :
        /\ state' = [state EXCEPT !.isMinusHeld = isPressed]
        /\ last' = Applied("button")
        /\ UNCHANGED <<manager, currentRound, serverVars>>

Next == Tick \/ CenterClick \/ PlusButton \/ MinusButton

Spec == Init /\ [][Next]_vars

\* The same driver and input layer around ConsolidatedGame.tsx's own manager.
InitConsolidated == InitWith({"consolidated"})


\* The game loop: while the round is playing, setInterval calls updateGameState
\* every 1/60 s with a positive deltaTime.  ClockTick is such a call seen as a
\* step: a tick that took time off the clock.
ClockTick == last'.op = "tick" /\ state'.gameTimer < state.gameTimer

\* Weak fairness of the loop's tick, WF_vars(ClockTick), written out.  The tick
\* is enabled exactly while the round is playing, so either the round is not
\* playing again and again, or the clock ticks again and again.
LoopFairness == []<>(state.gameStatus # "playing") \/ []<><<ClockTick>>_vars

SpecLoop == Init /\ [][Next]_vars /\ LoopFairness

SpecConsolidated == InitConsolidated /\ [][Next]_vars

\* The same driver and input layer around CatComfortGame.tsx's own manager.
InitCatComfort == InitWith({"catcomfort"})

SpecCatComfort == InitCatComfort /\ [][Next]_vars

(***************************************************************************)
(* Rounds.  The overlay of a finished round offers "restart" and "next       *)
(* round"; both hand the manager a config and take a fresh state from it.   *)
(***************************************************************************)
\* A config that differs from GAME_CONFIG in every value.
OTHER_CONFIG ==
    [ TEMPERATURE_CHANGE_RATE   |-> 4,
      TEMPERATURE_COOLING_RATE  |-> 2,
      COMFORT_CHANGE_RATE       |-> 4,
      GAME_DURATION             |-> 100,
      SUCCESS_HOLD_TIME         |-> 25,
      INITIAL_TEMPERATURE       |-> 40,
      TARGET_TEMPERATURE_MIN    |-> 20,
      TARGET_TEMPERATURE_MAX    |-> 40,
      TOLERANCE_WIDTH           |-> 20,
      INTERFERENCE_MIN_INTERVAL |-> 10,
      INTERFERENCE_MAX_INTERVAL |-> 20,
      INTERFERENCE_DURATION     |-> 50 ]

Configs == {GAME_CONFIG, OTHER_CONFIG}

\* resetGame / startNextRound: updateConfig(newConfig), then resetGameState()
StartRound ==
    /\ state.gameStatus # "playing"
    /\ \E newConfig \in Configs :
           /\ manager' = updateConfig(manager, newConfig)
           /\ state' \in {resetGameState(manager', rnd) : rnd \in InitDraws}
    /\ last' = Applied("reset")
    /\ UNCHANGED <<currentRound, serverVars>>

NextRounds == Next \/ StartRound

SpecRounds == Init /\ [][NextRounds]_vars

(***************************************************************************)
(* The round counter of the game component (useGameState): "Start Over"     *)
(* goes back to round 1, "Next Round" of a won round goes to the next one.  *)
(***************************************************************************)
\* The rounds played before the model stops counting.
MaxRound == 4

\* Faulty variant: the duration of a round is not kept at 10 s or more.
newDuration_noMinimum(nextRound) == 300 - ((nextRound - 1) * 100)

\* Math.max(10, 30 - ((nextRound - 1) * 10)), in tenths of a second
newDuration(nextRound) == Max(100, 300 - ((nextRound - 1) * 100))

\* resetGame of the component
ResetGame ==
    /\ state.gameStatus # "playing"
    /\ currentRound' = 1
    /\ manager' = updateConfig(manager, [GAME_CONFIG EXCEPT !.GAME_DURATION = 300])
    /\ state' \in {resetGameState(manager', rnd) : rnd \in InitDraws}
    /\ last' = Applied("resetGame")
    /\ UNCHANGED serverVars

\* startNextRound of the component
StartNextRound ==
    /\ state.gameStatus = "success"
    /\ currentRound < MaxRound
    /\ LET nextRound == currentRound + 1
       IN  /\ currentRound' = nextRound
           /\ manager' = updateConfig(manager,
                              [GAME_CONFIG EXCEPT !.GAME_DURATION = newDuration(nextRound)])
    /\ state' \in {resetGameState(manager', rnd) : rnd \in InitDraws}
    /\ last' = Applied("startNextRound")
    /\ UNCHANGED serverVars

NextComponent == Next \/ ResetGame \/ StartNextRound

SpecComponent == Init /\ [][NextComponent]_vars

(***************************************************************************)
(* The server.  One GameStateManager serves every post; the PostConfig of a *)
(* post is kept in redis and every request handler reads it, computes, and  *)
(* writes it back.  A handler runs up to its next await in one step, so     *)
(* requests in flight interleave between their redis calls.                 *)
(***************************************************************************)
Posts == {"post1", "post2"}

\* The requests one behaviour of the model serves.
MaxRequests == 3

\* deltaTime of an update-game request: 5 s.
ServerDeltaTimes == {50}

\* newRound of a reset-game request: absent (0), or round 3.
NewRounds == {0, 3}

\* The random numbers the server's calls draw in the model.
ServerInitDraws == [target : {0}, interval : {0}]
ServerTickDraws == [type : {0, 2}, shock : {0}, interval : {0}, expiry : {0}]
ServerClickDraws == [interval : {0}]

\* what redis.get gives for a key that was never set
NoConfig == [currentRound |-> 0]

postConfigMaybeGet(postId) == IF postId \in DOMAIN redis THEN redis[postId] ELSE NoConfig

\* { ...existingConfig, ...config }
MergeConfig(existingConfig, config) == config @@ existingConfig

\* A request as it arrives: which handler, for which post, with which body.
NewRequest(op, postId) ==
    [ id         |-> Cardinality(requests) + 1,
      op         |-> op,
      postId     |-> postId,
      deltaTime  |-> 0,
      buttonType |-> "none",
      isPressed  |-> FALSE,
      newRound   |-> 0,
      pc         |-> "done",
      config     |-> NoConfig ]

\* the request r is now as in r2
Becomes(r, r2) == requests' = (requests \ {r}) \cup {r2}

InitServer ==
    \E rnd \in ServerInitDraws :
        /\ manager = GameStateManager("server", GAME_CONFIG)
        /\ redis = ("post1" :> [gameState |-> createInitialState(manager, rnd), currentRound |-> 1])
        /\ state = redis["post1"].gameState
        /\ last = [op |-> "create", status |-> "playing", event |-> "none"]
        /\ currentRound = 1
        /\ requests = {}

\* GET /api/init up to the answer of postConfigMaybeGet
ApiInit ==
    /\ Cardinality(requests) < MaxRequests
    /\ \E postId \in Posts :
           LET config == postConfigMaybeGet(postId)
           IN  requests' = requests \cup
                   {[NewRequest("init", postId) EXCEPT
                        !.pc = IF config = NoConfig THEN "new" ELSE "done",
                        !.config = config]}
    /\ UNCHANGED <<manager, state, last, currentRound, redis>>

\* postConfigNew: the shared manager's createInitialState, then redis.set
PostConfigNew ==
    /\ \E r \in requests, rnd \in ServerInitDraws :
           /\ r.op = "init"
           /\ r.pc = "new"
           /\ LET config == [gameState |-> createInitialState(manager, rnd), currentRound |-> 1]
              IN  /\ redis' = (r.postId :> config) @@ redis
                  /\ Becomes(r, [r EXCEPT !.pc = "done", !.config = config])
    /\ UNCHANGED <<manager, state, last, currentRound>>

\* processGameUpdate up to the answer of postConfigGet, which throws for a
\* post without a config
ProcessGameUpdate ==
    /\ Cardinality(requests) < MaxRequests
    /\ \E postId \in DOMAIN redis, deltaTime \in ServerDeltaTimes :
           requests' = requests \cup
               {[NewRequest("update-game", postId) EXCEPT
                    !.deltaTime = deltaTime,
                    !.pc = "compute",
                    !.config = postConfigMaybeGet(postId)]}
    /\ UNCHANGED <<manager, state, last, currentRound, redis>>

\* processGameUpdate from there: updateGameState on what was read, then
\* postConfigSet up to the answer of its own postConfigMaybeGet
ProcessGameUpdateCompute ==
    /\ \E r \in requests, rnd \in ServerTickDraws :
           /\ r.op = "update-game"
           /\ r.pc = "compute"
           /\ LET updatedGameState == updateGameState(manager, r.config.gameState, r.deltaTime, rnd)
              IN  Becomes(r, [r EXCEPT
                      !.pc = "set",
                      !.config = MergeConfig(postConfigMaybeGet(r.postId),
                                             [gameState |-> updatedGameState])])
    /\ UNCHANGED <<manager, state, last, currentRound, redis>>

\* handleButtonPress up to the answer of postConfigGet
HandleButtonPress ==
    /\ Cardinality(requests) < MaxRequests
    /\ \E postId \in DOMAIN redis, buttonType \in {"plus", "minus", "center"}, isPressed \in BOOLEAN :
           requests' = requests \cup
               {[NewRequest("button-press", postId) EXCEPT
                    !.buttonType = buttonType,
                    !.isPressed = isPressed,
                    !.pc = "compute",
                    !.config = postConfigMaybeGet(postId)]}
    /\ UNCHANGED <<manager, state, last, currentRound, redis>>

\* handleButtonPress from there, up to the answer of postConfigSet's read
HandleButtonPressCompute ==
    /\ \E r \in requests, rnd \in ServerClickDraws :
           /\ r.op = "button-press"
           /\ r.pc = "compute"
           /\ LET gameState == r.config.gameState
                  newState ==
                      CASE r.buttonType = "center" -> handleCenterButtonClick(manager, gameState, rnd)
                        [] r.buttonType = "plus" -> [gameState EXCEPT !.isPlusHeld = r.isPressed]
                        [] r.buttonType = "minus" -> [gameState EXCEPT !.isMinusHeld = r.isPressed]
              IN  Becomes(r, [r EXCEPT
                      !.pc = "set",
                      !.config = MergeConfig(postConfigMaybeGet(r.postId),
                                             [gameState |-> newState])])
    /\ UNCHANGED <<manager, state, last, currentRound, redis>>

\* resetGame of the server up to the answer of postConfigSet's read
ServerResetGame ==
    /\ Cardinality(requests) < MaxRequests
    /\ \E postId \in Posts, newRound \in NewRounds, rnd \in ServerInitDraws :
           LET round == IF newRound = 0 THEN 1 ELSE newRound
               newConfig == [GAME_CONFIG EXCEPT !.GAME_DURATION = newDuration(round)]
           IN  /\ manager' = updateConfig(manager, newConfig)
               /\ requests' = requests \cup
                      {[NewRequest("reset-game", postId) EXCEPT
                           !.newRound = newRound,
                           !.pc = "set",
                           !.config =
                               MergeConfig(postConfigMaybeGet(postId),
                                           [gameState |-> createInitialState(manager', rnd),
                                            currentRound |-> round])]}
    /\ UNCHANGED <<state, last, currentRound, redis>>

\* postConfigSet's redis.set, and the response with the game state
PostConfigSet ==
    /\ \E r \in requests :
           /\ r.pc = "set"
           /\ redis' = (r.postId :> r.config) @@ redis
           /\ Becomes(r, [r EXCEPT !.pc = "done"])
           /\ state' = r.config.gameState
           /\ last' = Applied(r.op)
    /\ UNCHANGED <<manager, currentRound>>

NextServer ==
    \/ ApiInit
    \/ PostConfigNew
    \/ ProcessGameUpdate
    \/ ProcessGameUpdateCompute
    \/ HandleButtonPress
    \/ HandleButtonPressCompute
    \/ ServerResetGame
    \/ PostConfigSet

SpecServer == InitServer /\ [][NextServer]_vars

(***************************************************************************)
(* A round in progress.  Reaching a comfort of 0.8 takes seconds of ticks   *)
(* small enough to keep the temperature inside the tolerance band, far more *)
(* steps than the machine above can take with its coarse elapsed times.     *)
(* SpecSnapshot starts from a snapshot of a playing round, as the 60 Hz     *)
(* loop produces them, and applies one operation to it.                     *)
(***************************************************************************)
SnapshotEvents ==
    {clearInterferenceEvent} \cup
    [ type : {"controls_reversed", "temperature_shock", "bubble_obstruction"},
      isActive : {TRUE},
      duration : {INTERFERENCE_DURATION},
      remainingTime : {5, 60} ]

\* What the code of class impl keeps true of a playing state.
IsSnapshot(impl, s) ==
    \* isControlsReversed is set with the event and reset with it
    /\ s.isControlsReversed = (s.interferenceEvent.type = "controls_reversed")
    \* the hold timer runs exactly while comfort is at its maximum, which
    \* takes a temperature inside the band
    /\ (s.successHoldTimer > 0) = (s.currentComfort >= 100)
    /\ s.currentComfort >= 100 =>
           isTemperatureInRange(s.currentTemperature, s.targetTemperature, s.toleranceWidth)
    \* only a temperature shock of the raddit and consolidated classes moves the target
    /\ impl = "client" => s.targetTemperature < TARGET_TEMPERATURE_MAX
    \* the interference timer: seeded while no event is active; the client class
    \* leaves it at 0 during an event, the others reseed it when the event
    \* starts and both then count down together
    /\ ~s.interferenceEvent.isActive => s.interferenceTimer > 0
    /\ s.interferenceEvent.isActive =>
           s.interferenceTimer =
               IF impl = "client" THEN 0
               ELSE Max(0, s.interferenceEvent.remainingTime - 40)
    \* an event has been running for a while only in a round that has
    /\ s.interferenceEvent.isActive => s.gameTimer < GAME_DURATION - 100

Snapshots(impl) ==
    LET common ==
            { s \in [ currentTemperature : {0, 45, 100},
                      targetTemperature  : {50, 90},
                      toleranceWidth     : {TOLERANCE_WIDTH},
                      currentComfort     : {0, 79, 80, 100},
                      gameTimer          : {3, 150},
                      successHoldTimer   : {0, 30},
                      isPlusHeld         : BOOLEAN,
                      isMinusHeld        : BOOLEAN,
                      gameStatus         : {"playing"},
                      interferenceEvent  : SnapshotEvents,
                      interferenceTimer  : {0, 20},
                      isControlsReversed : BOOLEAN ] : IsSnapshot(impl, s) }
    IN  IF impl = "client"
            THEN { s @@ [speedMultiplier |-> 100] : s \in common }
            ELSE common

InitSnapshot ==
    \E impl \in Managers \cup {"consolidated"} :
        /\ manager = GameStateManager(impl, GAME_CONFIG)
        /\ state \in Snapshots(impl)
        /\ last = [op |-> "snapshot", status |-> "playing", event |-> "none"]
        /\ currentRound = 1
        /\ redis = <<>>
        /\ requests = {}

NextSnapshot == last.op = "snapshot" /\ Next

SpecSnapshot == InitSnapshot /\ [][NextSnapshot]_vars

\* The same snapshots under a tick of 0.3 s, short enough for a temperature
\* inside the tolerance band to stay inside it while the clock runs out.
ShortDeltaTimes == {3}

ShortTick ==
    \E deltaTime \in ShortDeltaTimes :
        /\ state' \in {updateGameState(manager, state, deltaTime, rnd) : rnd \in TickDraws}
        /\ last' = Applied("tick")
        /\ UNCHANGED <<manager, currentRound, serverVars>>

NextShort == last.op = "snapshot" /\ (Next \/ ShortTick)

SpecShort == InitSnapshot /\ [][NextShort]_vars

(***************************************************************************)
(* Properties                                                              *)
(***************************************************************************)
Terminal == {"success", "failure"}

\* C1 (terminal freeze).  In every reachable state whose gameStatus is success
\* or failure, updateGameState returns its input, equal in every field, for
\* every dt and every random draw; the result being the input, so does every
\* further call.
C1_TerminalFreeze ==
    state.gameStatus \in Terminal =>
        \A dt \in DeltaTimes, rnd \in TickDraws :
            updateGameState(manager, state, dt, rnd) = state

\* A tick was applied to a won or lost round that still had time on its clock
\* and an active interference, which a playing tick would have advanced.
C1_Witness ==
    /\ last.op = "tick"
    /\ last.status \in Terminal
    /\ state.gameTimer > 0
    /\ state.interferenceEvent.isActive

\* C2 (outcome at timer expiry).  A tick of a playing state that brings gameTimer
\* to 0 returns gameStatus success if currentComfort >= 0.8 and failure
\* otherwise.
C2_TimerExpiryOutcome ==
    \A dt \in DeltaTimes, rnd \in TickDraws :
        (state.gameStatus = "playing" /\ state.gameTimer - dt <= 0) =>
            updateGameState(manager, state, dt, rnd).gameStatus =
                (IF state.currentComfort >= 80 THEN "success" ELSE "failure")

\* C3 (the terminating tick short-circuits).  A tick of a playing state that
\* brings gameTimer to 0 changes gameTimer, interferenceTimer and gameStatus
\* only; temperature, comfort, hold timer, target, interference event and
\* isControlsReversed are those of the input.
C3_TerminatingTickFrame ==
    \A dt \in DeltaTimes, rnd \in TickDraws :
        (state.gameStatus = "playing" /\ state.gameTimer - dt <= 0) =>
            LET n == updateGameState(manager, state, dt, rnd)
            IN  n = [state EXCEPT !.gameTimer = n.gameTimer,
                                  !.interferenceTimer = n.interferenceTimer,
                                  !.gameStatus = n.gameStatus]

\* C4 (controls_reversed cannot be clicked away).  handleCenterButtonClick on a
\* state whose active interference is controls_reversed returns the state
\* unchanged.
C4_ReversedNotClearedByClick ==
    (state.interferenceEvent.isActive /\ ~canBeClearedByClick(state.interferenceEvent.type)) =>
        \A rnd \in ClickDraws : handleCenterButtonClick(manager, state, rnd) = state

\* C5 (stale click).  handleCenterButtonClick on a state that is not playing
\* returns the state unchanged, also when an interference is still active.
C5_TerminalClickNoOp ==
    state.gameStatus # "playing" =>
        \A rnd \in ClickDraws : handleCenterButtonClick(manager, state, rnd) = state

\* C6 (isControlsReversed mirrors the event).  In every reachable state
\* isControlsReversed is true exactly when an interference is active and its
\* type is controls_reversed.
C6_ReversedIffEvent ==
    state.isControlsReversed <=>
        (state.interferenceEvent.isActive /\ state.interferenceEvent.type = "controls_reversed")

\* A tick let a controls_reversed event run out and the round goes on with the
\* controls restored.
C6_Witness ==
    /\ last.op = "tick"
    /\ last.event = "controls_reversed"
    /\ state.gameStatus = "playing"
    /\ state.interferenceEvent.type # "controls_reversed"
    /\ ~state.isControlsReversed

\* C7 (expiry clears).  A tick that does not end the round and whose dt is at
\* least the active event's remainingTime returns interferenceEvent of type none,
\* inactive, and isControlsReversed false, whatever interferenceTimer was.
C7_ExpiryClears ==
    \A dt \in DeltaTimes, rnd \in TickDraws :
        ( /\ state.gameStatus = "playing"
          /\ state.gameTimer - dt > 0
          /\ state.interferenceEvent.isActive
          /\ dt >= state.interferenceEvent.remainingTime ) =>
            LET n == updateGameState(manager, state, dt, rnd)
            IN  /\ n.interferenceEvent.type = "none"
                /\ ~n.interferenceEvent.isActive
                /\ ~n.isControlsReversed

\* C8 (events run out by timer alone).  On every tick with dt > 0 after which
\* the round is still playing, an active event's remainingTime goes down by dt,
\* and the event is over on the tick that brings it to 0: the state then holds
\* no event or a freshly created one.  So no event outlives its duration.
C8_EventRunsOut ==
    \A dt \in DeltaTimes \ {0}, rnd \in TickDraws :
        (state.gameStatus = "playing" /\ state.interferenceEvent.isActive) =>
            LET n == updateGameState(manager, state, dt, rnd)
            IN  n.gameStatus = "playing" =>
                    IF state.interferenceEvent.remainingTime <= dt
                        THEN \/ ~n.interferenceEvent.isActive
                             \/ n.interferenceEvent.remainingTime = n.interferenceEvent.duration
                        ELSE n.interferenceEvent =
                                 [state.interferenceEvent EXCEPT !.remainingTime = @ - dt]

\* C9 (what a click changes).  handleCenterButtonClick on a playing state with an
\* active temperature_shock or bubble_obstruction changes three fields only:
\* interferenceEvent becomes {none, false, 0, 0}, isControlsReversed false, and
\* interferenceTimer a value in [INTERFERENCE_MIN_INTERVAL,
\* INTERFERENCE_MAX_INTERVAL]; isPlusHeld, isMinusHeld and the rest are kept.
\* With no active interference it returns its input.
C9_ClickFrame ==
    \A rnd \in ClickDraws :
        LET n == handleCenterButtonClick(manager, state, rnd)
        IN  /\ ( /\ state.gameStatus = "playing"
                 /\ state.interferenceEvent.isActive
                 /\ state.interferenceEvent.type \in {"temperature_shock", "bubble_obstruction"} ) =>
                    /\ n = [state EXCEPT
                               !.interferenceEvent = [type |-> "none", isActive |-> FALSE,
                                                      duration |-> 0, remainingTime |-> 0],
                               !.isControlsReversed = FALSE,
                               !.interferenceTimer = n.interferenceTimer]
                    /\ n.interferenceTimer >= INTERFERENCE_MIN_INTERVAL
                    /\ n.interferenceTimer <= INTERFERENCE_MAX_INTERVAL
            /\ ~state.interferenceEvent.isActive => n = state

\* A click cleared a temperature_shock of a playing round while the plus control
\* was held, and the control is still held.
C9_Witness ==
    /\ last.op = "click"
    /\ last.status = "playing"
    /\ last.event = "temperature_shock"
    /\ ~state.interferenceEvent.isActive
    /\ state.isPlusHeld

\* C10 (gameStatus only moves forward).  gameStatus is never paused, and no
\* operation applied to a state that is success or failure returns another
\* gameStatus: the only changes are playing to success and playing to failure.
C10_StatusOnlyForward ==
    /\ state.gameStatus \in {"playing", "success", "failure"}
    /\ last.status \in Terminal => state.gameStatus = last.status

\* A tick took a playing round to success.
C10_Witness ==
    /\ last.op = "tick"
    /\ last.status = "playing"
    /\ state.gameStatus = "success"

\* C11 (hold success).  A playing state never has successHoldTimer >=
\* SUCCESS_HOLD_TIME: the tick on which the hold timer reaches SUCCESS_HOLD_TIME
\* without ending the round by the clock returns gameStatus success.
C11_HoldCompleteWins ==
    state.gameStatus = "playing" => state.successHoldTimer < manager.config.SUCCESS_HOLD_TIME

\* C12 (hold-reset law).  A tick of a playing state that does not end the round
\* by the clock leaves successHoldTimer at exactly 0 when the comfort it
\* computed is below 1.0, whatever the timer was, and at the previous value
\* plus dt when the comfort is 1.0; and in every reachable state
\* successHoldTimer > 0 implies currentComfort = 1.0.
C12_HoldResetLaw ==
    /\ state.successHoldTimer > 0 => state.currentComfort = 100
    /\ \A dt \in DeltaTimes, rnd \in TickDraws :
           (state.gameStatus = "playing" /\ state.gameTimer - dt > 0) =>
               LET n == updateGameState(manager, state, dt, rnd)
               IN  n.successHoldTimer =
                       IF n.currentComfort < 100 THEN 0 ELSE state.successHoldTimer + dt

\* A tick left a playing round at maximum comfort with the hold timer running,
\* and a further tick drops the comfort and resets the timer.
C12_Witness ==
    /\ last.op = "tick"
    /\ state.gameStatus = "playing"
    /\ state.successHoldTimer > 0
    /\ \E dt \in DeltaTimes, rnd \in TickDraws :
           /\ state.gameTimer - dt > 0
           /\ updateGameState(manager, state, dt, rnd).currentComfort < 100
           /\ updateGameState(manager, state, dt, rnd).successHoldTimer = 0

\* What C13 says of one state: the clock is never negative, and a tick with
\* dt > 0 of a playing state takes time off the clock without going below 0
\* and returns success or failure when it brings the clock to 0.
C13_ClockRunsDown ==
    /\ state.gameTimer >= 0
    /\ state.gameStatus = "playing" =>
           \A dt \in DeltaTimes \ {0}, rnd \in TickDraws :
               LET n == updateGameState(manager, state, dt, rnd)
               IN  /\ n.gameTimer < state.gameTimer
                   /\ n.gameTimer >= 0
                   /\ state.gameTimer - dt <= 0 => n.gameStatus \in Terminal

\* C13 (every round ends).  Under repeated ticks with dt > 0 gameTimer strictly
\* decreases while the round is playing and never goes below 0, the tick that
\* brings it to 0 ends the round, and so every round eventually is success or
\* failure.
C13_EveryRoundEnds ==
    /\ []C13_ClockRunsDown
    /\ <>(state.gameStatus \in Terminal)

\* A tick of a playing round brought the clock to 0 and ended the round.
C13_Witness ==
    /\ last.op = "tick"
    /\ last.status = "playing"
    /\ state.gameTimer = 0
    /\ state.gameStatus \in Terminal

\* C14 (interference mutual exclusion).  A tick of a playing state never
\* replaces an event that is still active once dt is taken off its remaining
\* time: the returned event is active, of the same type and duration, with no
\* more time left than before, and the effects a new event applies
\* (targetTemperature, isControlsReversed) are absent; and
\* shouldTriggerInterference(timer, true) is false for every timer.
C14_OneEventAtATime ==
    /\ \A timer \in {0, INTERFERENCE_MIN_INTERVAL} : ~shouldTriggerInterference(timer, TRUE)
    /\ \A dt \in DeltaTimes, rnd \in TickDraws :
           ( /\ state.gameStatus = "playing"
             /\ state.interferenceEvent.isActive
             /\ state.interferenceEvent.remainingTime > dt ) =>
               LET n == updateGameState(manager, state, dt, rnd)
               IN  /\ n.interferenceEvent.isActive
                   /\ n.interferenceEvent.type = state.interferenceEvent.type
                   /\ n.interferenceEvent.duration = state.interferenceEvent.duration
                   /\ n.interferenceEvent.remainingTime <= state.interferenceEvent.remainingTime
                   /\ n.targetTemperature = state.targetTemperature
                   /\ n.isControlsReversed = state.isControlsReversed

\* A tick of a playing round found an event active and the interference timer
\* run out, and the event is still the one it was.
C14_Witness ==
    /\ last.op = "tick"
    /\ last.status = "playing"
    /\ last.event # "none"
    /\ state.gameStatus = "playing"
    /\ state.interferenceTimer = 0
    /\ state.interferenceEvent.isActive
    /\ state.interferenceEvent.type = last.event
    /\ state.interferenceEvent.remainingTime < state.interferenceEvent.duration

\* C15 (isActive mirrors the type).  In every reachable state the event is
\* active exactly when its type is not none; an active event has one of the
\* three types controls_reversed, temperature_shock and bubble_obstruction, and
\* an inactive event is exactly {none, false, 0, 0}.
C15_ActiveIffTyped ==
    /\ state.interferenceEvent.isActive <=> state.interferenceEvent.type # "none"
    /\ state.interferenceEvent.isActive =>
           state.interferenceEvent.type \in
               {"controls_reversed", "temperature_shock", "bubble_obstruction"}
    /\ ~state.interferenceEvent.isActive =>
           state.interferenceEvent =
               [type |-> "none", isActive |-> FALSE, duration |-> 0, remainingTime |-> 0]

\* A tick let an event of a playing round run out, and the round is left with
\* no event.
C15_Witness ==
    /\ last.op = "tick"
    /\ last.status = "playing"
    /\ last.event # "none"
    /\ state.gameStatus = "playing"
    /\ ~state.interferenceEvent.isActive

\* C16 (updateConfig replaces the whole config).  After updateConfig(c) the
\* manager behaves as one constructed with c: createInitialState and
\* resetGameState, every tick and every click return what a new
\* GameStateManager(c) returns, so no value of an earlier config is in effect.
C16_ConfigReplacedWholesale ==
    LET fresh == GameStateManager(manager.impl, manager.config)
    IN  /\ \A rnd \in InitDraws :
               /\ createInitialState(manager, rnd) = createInitialState(fresh, rnd)
               /\ resetGameState(manager, rnd) = resetGameState(fresh, rnd)
        /\ \A dt \in DeltaTimes, rnd \in TickDraws :
               updateGameState(manager, state, dt, rnd) = updateGameState(fresh, state, dt, rnd)
        /\ \A rnd \in ClickDraws :
               handleCenterButtonClick(manager, state, rnd) =
                   handleCenterButtonClick(fresh, state, rnd)

\* What C17 says of a state s returned by a manager whose config is c.
IsFreshState(s, c) ==
    /\ s.gameStatus = "playing"
    /\ s.gameTimer = c.GAME_DURATION
    /\ s.currentTemperature = c.INITIAL_TEMPERATURE
    /\ s.toleranceWidth = c.TOLERANCE_WIDTH
    /\ s.targetTemperature >= c.TARGET_TEMPERATURE_MIN
    /\ s.targetTemperature <= c.TARGET_TEMPERATURE_MAX
    /\ s.successHoldTimer = 0
    /\ ~s.isPlusHeld
    /\ ~s.isMinusHeld
    /\ s.interferenceEvent =
           [type |-> "none", isActive |-> FALSE, duration |-> 0, remainingTime |-> 0]
    /\ ~s.isControlsReversed
    /\ s.interferenceTimer >= c.INTERFERENCE_MIN_INTERVAL
    /\ s.interferenceTimer <= c.INTERFERENCE_MAX_INTERVAL

\* C17 (fresh state).  createInitialState and resetGameState return, whatever
\* the game state before, a playing state with gameTimer, currentTemperature
\* and toleranceWidth from the config, targetTemperature and interferenceTimer
\* inside the config's bounds, no hold, no control held, no event, and
\* currentComfort at one baseline, the same for every manager.
C17_FreshState ==
    \A rnd \in InitDraws :
        /\ IsFreshState(createInitialState(manager, rnd), manager.config)
        /\ IsFreshState(resetGameState(manager, rnd), manager.config)
        /\ \A impl \in Managers :
               resetGameState(manager, rnd).currentComfort =
                   createInitialState(GameStateManager(impl, manager.config), rnd).currentComfort

\* Prior values handed to updateTemperature and updateComfort, two of them
\* outside [0, 1]: -0.5, 0, 0.5, 1 and 1.5.
PriorValues == {-50, 0, 50, 100, 150}

\* C18 (clamping).  For every dt >= 0, every combination of the flags and every
\* prior value, also one outside [0, 1], updateTemperature and updateComfort
\* return a value in [0, 1]; and currentTemperature and currentComfort lie in
\* [0, 1] in every reachable state.
C18_Clamped ==
    /\ state.currentTemperature \in 0..100
    /\ state.currentComfort \in 0..100
    /\ \A prior \in PriorValues \cup {state.currentTemperature}, dt \in DeltaTimes :
           \A plus \in BOOLEAN, minus \in BOOLEAN, reversed \in BOOLEAN :
               updateTemperature(manager.temperatureSystem, prior, plus, minus, reversed, dt)
                   \in 0..100
    /\ \A prior \in PriorValues \cup {state.currentComfort}, dt \in DeltaTimes :
           \A inRange \in BOOLEAN :
               updateComfort(manager.comfortSystem, prior, inRange, dt) \in 0..100

\* A tick heated the temperature of a playing round past 1 and took the comfort
\* below 0, and both were clamped.
C18_Witness ==
    /\ last.op = "tick"
    /\ last.status = "playing"
    /\ state.currentTemperature = 100
    /\ state.currentComfort = 0

\* Negative elapsed times a caller may hand to a tick: -0.5 s and -2.5 s.
NegativeDeltaTimes == {-5, -25}

\* C19 (negative dt is clamped).  After updateGameState(state, dt) with dt < 0 on
\* a playing state, gameTimer and interferenceTimer are not greater than before,
\* successHoldTimer is >= 0, and an active event's remainingTime is not greater
\* than before and not greater than its duration.
C19_NegativeDeltaClamped ==
    \A dt \in NegativeDeltaTimes, rnd \in TickDraws :
        state.gameStatus = "playing" =>
            LET n == updateGameState(manager, state, dt, rnd)
            IN  /\ n.gameTimer <= state.gameTimer
                /\ n.interferenceTimer <= state.interferenceTimer
                /\ n.successHoldTimer >= 0
                /\ (state.interferenceEvent.isActive /\ n.interferenceEvent.isActive) =>
                       /\ n.interferenceEvent.remainingTime <=
                              state.interferenceEvent.remainingTime
                       /\ n.interferenceEvent.remainingTime <= n.interferenceEvent.duration

\* clamp01 of C20, in hundredths
Clamp01(x) == IF x < 0 THEN 0 ELSE IF x > 100 THEN 100 ELSE x

\* D of C20: what held controls add to the temperature in dt
TemperatureDelta(config, plus, minus, reversed, dt) ==
    LET effPlus == (reversed /\ minus) \/ (~reversed /\ plus)
        effMinus == (reversed /\ plus) \/ (~reversed /\ minus)
    IN  CASE effPlus -> config.TEMPERATURE_CHANGE_RATE * dt
          [] ~effPlus /\ effMinus -> 0 - config.TEMPERATURE_CHANGE_RATE * dt
          [] OTHER -> 0 - config.TEMPERATURE_COOLING_RATE * dt

\* C20 (updateTemperature).  For every t, every dt >= 0 and every combination of
\* the flags updateTemperature(t, plus, minus, reversed, dt) = clamp01(t + D);
\* plus alone under reversed controls gives what minus alone gives under normal
\* controls; and with no control held the temperature strictly decreases on a
\* tick with dt > 0 until it is 0.
C20_TemperatureLaw ==
    LET config == manager.temperatureSystem
    IN  \A t \in {0, 10, 100, state.currentTemperature}, dt \in DeltaTimes :
            /\ \A plus \in BOOLEAN, minus \in BOOLEAN, reversed \in BOOLEAN :
                   updateTemperature(config, t, plus, minus, reversed, dt) =
                       Clamp01(t + TemperatureDelta(config, plus, minus, reversed, dt))
            /\ updateTemperature(config, t, TRUE, FALSE, TRUE, dt) =
                   updateTemperature(config, t, FALSE, TRUE, FALSE, dt)
            /\ dt > 0 =>
                   LET idle == updateTemperature(config, t, FALSE, FALSE, state.isControlsReversed, dt)
                   IN  IF t > 0 THEN idle < t /\ idle >= 0 ELSE idle = 0

\* A tick of a playing round ran with the controls reversed and only the plus
\* control held, and the temperature is down at 0.
C20_Witness ==
    /\ last.op = "tick"
    /\ last.status = "playing"
    /\ last.event = "controls_reversed"
    /\ state.isControlsReversed
    /\ state.isPlusHeld
    /\ ~state.isMinusHeld
    /\ state.currentTemperature = 0

\* C21 (comfort law).  On a tick that does not end the round currentComfort
\* becomes clamp01(prev + COMFORT_CHANGE_RATE * dt) if the temperature and the
\* target this same tick produced are at most toleranceWidth apart, equality
\* included, and clamp01(prev - COMFORT_CHANGE_RATE * dt) otherwise.
C21_ComfortLaw ==
    LET rate == manager.comfortSystem.COMFORT_CHANGE_RATE
    IN  \A dt \in DeltaTimes, rnd \in TickDraws :
            (state.gameStatus = "playing" /\ state.gameTimer - dt > 0) =>
                LET n == updateGameState(manager, state, dt, rnd)
                IN  n.currentComfort =
                        IF Abs(n.currentTemperature - n.targetTemperature) <= n.toleranceWidth
                            THEN Clamp01(state.currentComfort + rate * dt)
                            ELSE Clamp01(state.currentComfort - rate * dt)

\* A tick left a playing round with the temperature exactly toleranceWidth away
\* from the target, and comfort at its maximum with the hold timer running.
C21_Witness ==
    /\ last.op = "tick"
    /\ last.status = "playing"
    /\ state.gameStatus = "playing"
    /\ Abs(state.currentTemperature - state.targetTemperature) = state.toleranceWidth
    /\ state.currentComfort = 100
    /\ state.successHoldTimer > 0

\* C22 (round durations).  The n-th round started through startNextRound or
\* resetGame has gameTimer = max(10, 30 - 10 * (n - 1)) seconds, 30 s, 20 s,
\* 10 s and 10 s from then on, never below 10 and never above 30, and a
\* restart returns to round 1 with 30 seconds.
C22_RoundDurations ==
    /\ last.op \in {"resetGame", "startNextRound"} =>
           /\ state.gameTimer = Max(100, 300 - 100 * (currentRound - 1))
           /\ state.gameTimer >= 100
           /\ state.gameTimer <= 300
           /\ state.gameTimer =
                  (CASE currentRound = 1 -> 300 [] currentRound = 2 -> 200 [] OTHER -> 100)
    /\ last.op = "resetGame" => currentRound = 1 /\ state.gameTimer = 300
    /\ last.op = "startNextRound" =>
           /\ currentRound >= 2
           /\ state.gameTimer = calculateNextRoundTime(currentRound - 1, 300, 100, 100)

\* The fourth round was started from a won third round: 30 - 10 * 3 is 0, and
\* the round has 10 seconds.
C22_Witness ==
    /\ last.op = "startNextRound"
    /\ last.status = "success"
    /\ currentRound = 4
    /\ state.gameTimer = 100

\* C23 (reseed at expiry).  After a tick of a playing round in which the active
\* event runs out, interferenceTimer is a freshly drawn value in
\* [INTERFERENCE_MIN_INTERVAL, INTERFERENCE_MAX_INTERVAL] and no event is
\* active: no new event is triggered in the tick of the expiry, and the next
\* one is at least INTERFERENCE_MIN_INTERVAL away.
C23_ExpiryReseeds ==
    \A dt \in DeltaTimes, rnd \in TickDraws :
        ( /\ state.gameStatus = "playing"
          /\ state.gameTimer - dt > 0
          /\ state.interferenceEvent.isActive
          /\ dt >= state.interferenceEvent.remainingTime ) =>
            LET n == updateGameState(manager, state, dt, rnd)
            IN  /\ ~n.interferenceEvent.isActive
                /\ n.interferenceTimer >= manager.interferenceSystem.INTERFERENCE_MIN_INTERVAL
                /\ n.interferenceTimer <= manager.interferenceSystem.INTERFERENCE_MAX_INTERVAL

\* C24 (what a trigger leaves).  A tick of a playing round that triggers a new
\* interference (the returned event is active, and the one before was absent or
\* ran out in this tick) returns an event of one of the three types with
\* duration = remainingTime = INTERFERENCE_DURATION, and an interferenceTimer
\* reseeded to a value in [INTERFERENCE_MIN_INTERVAL, INTERFERENCE_MAX_INTERVAL].
C24_TriggerCreates ==
    \A dt \in DeltaTimes, rnd \in TickDraws :
        (state.gameStatus = "playing" /\ state.gameTimer - dt > 0) =>
            LET n == updateGameState(manager, state, dt, rnd)
                triggered ==
                    /\ n.interferenceEvent.isActive
                    /\ \/ ~state.interferenceEvent.isActive
                       \/ state.interferenceEvent.remainingTime <= dt
            IN  triggered =>
                    /\ n.interferenceEvent.type \in
                           {"controls_reversed", "temperature_shock", "bubble_obstruction"}
                    /\ n.interferenceEvent.duration = manager.config.INTERFERENCE_DURATION
                    /\ n.interferenceEvent.remainingTime = manager.config.INTERFERENCE_DURATION
                    /\ n.interferenceTimer >= manager.config.INTERFERENCE_MIN_INTERVAL
                    /\ n.interferenceTimer <= manager.config.INTERFERENCE_MAX_INTERVAL

\* C25 (who writes the target).  targetTemperature changes only in a tick that
\* triggers a temperature_shock, and then to one of the two shock values, both in
\* [0, 1]; the shock does not overwrite currentTemperature, which a tick changes
\* through updateTemperature only; every other tick and every click leave
\* targetTemperature as it was.
C25_TargetOnlyByShock ==
    /\ \A rnd \in ClickDraws :
           LET n == handleCenterButtonClick(manager, state, rnd)
           IN  /\ n.targetTemperature = state.targetTemperature
               /\ n.currentTemperature = state.currentTemperature
    /\ \A dt \in DeltaTimes, rnd \in TickDraws :
           LET n == updateGameState(manager, state, dt, rnd)
               shock ==
                   /\ state.gameStatus = "playing"
                   /\ n.interferenceEvent.type = "temperature_shock"
                   /\ n.interferenceEvent.remainingTime = n.interferenceEvent.duration
                   /\ \/ ~state.interferenceEvent.isActive
                      \/ state.interferenceEvent.remainingTime <= dt
           IN  /\ n.targetTemperature # state.targetTemperature =>
                      /\ shock
                      /\ n.targetTemperature \in {applyTemperatureShock(r) : r \in CoinDraws}
                      /\ n.targetTemperature \in 0..100
               /\ n.currentTemperature \in
                      { state.currentTemperature,
                        updateTemperature(manager.temperatureSystem, state.currentTemperature,
                                          n.isPlusHeld, n.isMinusHeld, n.isControlsReversed, dt) }

\* C26 (interference before temperature).  On the tick of a playing round that
\* triggers controls_reversed the temperature of that same tick is computed with
\* the controls swapped, and on the tick in which a controls_reversed event runs
\* out it is computed with the normal mapping.
C26_InterferenceBeforeTemperature ==
    \A dt \in DeltaTimes, rnd \in TickDraws :
        (state.gameStatus = "playing" /\ state.gameTimer - dt > 0) =>
            LET n == updateGameState(manager, state, dt, rnd)
                expires ==
                    /\ state.interferenceEvent.isActive
                    /\ state.interferenceEvent.remainingTime <= dt
                triggersReversed ==
                    /\ n.interferenceEvent.type = "controls_reversed"
                    /\ n.interferenceEvent.remainingTime = n.interferenceEvent.duration
                    /\ ~state.interferenceEvent.isActive \/ expires
                computedWith(reversed) ==
                    n.currentTemperature =
                        updateTemperature(manager.temperatureSystem, state.currentTemperature,
                                          state.isPlusHeld, state.isMinusHeld, reversed, dt)
            IN  /\ triggersReversed => computedWith(TRUE)
                /\ (expires /\ state.interferenceEvent.type = "controls_reversed") =>
                       computedWith(FALSE)

\* C27 (when a trigger happens).  A tick that does not end the round triggers a
\* new interference exactly when, with dt taken off interferenceTimer and the
\* expiry of the running event processed, the timer is <= 0 and no event is
\* active: a trigger needs the timer run out and no event still running; with
\* the timer run out and no event at all the tick does trigger; and a tick that
\* ends an event without triggering leaves a timer above 0.  Hence no event is
\* active in the first INTERFERENCE_MIN_INTERVAL seconds of a round.
C27_TriggerExactlyWhenDue ==
    /\ manager.config.GAME_DURATION - state.gameTimer
           < manager.config.INTERFERENCE_MIN_INTERVAL => ~state.interferenceEvent.isActive
    /\ \A dt \in DeltaTimes, rnd \in TickDraws :
           (state.gameStatus = "playing" /\ state.gameTimer - dt > 0) =>
               LET n == updateGameState(manager, state, dt, rnd)
                   timerRunOut == state.interferenceTimer - dt <= 0
                   stillRunning ==
                       /\ state.interferenceEvent.isActive
                       /\ state.interferenceEvent.remainingTime > dt
                   triggered == n.interferenceEvent.isActive /\ ~stillRunning
               IN  /\ triggered => timerRunOut
                   /\ stillRunning =>
                          n.interferenceEvent =
                              [state.interferenceEvent EXCEPT !.remainingTime = @ - dt]
                   /\ (timerRunOut /\ ~state.interferenceEvent.isActive) => triggered
                   /\ (state.interferenceEvent.isActive /\ ~stillRunning /\ ~triggered) =>
                          n.interferenceTimer > 0

\* A tick triggered the first interference of a round, not before
\* INTERFERENCE_MIN_INTERVAL seconds were played.
C27_Witness ==
    /\ last.op = "tick"
    /\ last.status = "playing"
    /\ last.event = "none"
    /\ state.gameStatus = "playing"
    /\ state.interferenceEvent.isActive
    /\ state.interferenceEvent.remainingTime = state.interferenceEvent.duration
    /\ manager.config.GAME_DURATION - state.gameTimer >= manager.config.INTERFERENCE_MIN_INTERVAL

\* C28 (the outcome matches its values).  In every reachable state a failure
\* has gameTimer = 0 and currentComfort < 0.8, and a success has
\* currentComfort >= 0.8.
C28_OutcomeConsistent ==
    /\ state.gameStatus = "failure" =>
           state.gameTimer = 0 /\ ~isSuccessConditionMet(state.currentComfort)
    /\ state.gameStatus = "success" => isSuccessConditionMet(state.currentComfort)

\* C29 (no lost update on the server).  When an update-game request and a
\* button-press request for the same post, and no other request for it, have
\* both completed, however their reads and writes interleaved, the stored
\* gameState reflects both: gameTimer is down by the tick's dt from the 30 s of
\* the post's first state, and the held flag is as the button request pressed it.
C29_NoLostUpdate ==
    \A u \in requests, b \in requests :
        ( /\ u.op = "update-game"
          /\ b.op = "button-press"
          /\ b.buttonType = "plus"
          /\ u.postId = "post1"
          /\ b.postId = "post1"
          /\ u.pc = "done"
          /\ b.pc = "done"
          /\ \A r \in requests \ {u, b} : r.postId # "post1" ) =>
            /\ redis["post1"].gameState.gameTimer = GAME_DURATION - u.deltaTime
            /\ redis["post1"].gameState.isPlusHeld = b.isPressed

\* C30 (sessions do not influence each other).  The state postConfigNew
\* creates for a post has gameTimer = GAME_CONFIG.GAME_DURATION, 30 s, whatever
\* resetGame calls were made before for other posts.
C30_NewPostFullDuration ==
    \A r \in requests :
        (r.op = "init" /\ r.pc = "done" /\ r.postId \notin {q.postId : q \in requests \ {r}}) =>
            redis[r.postId].gameState.gameTimer = GAME_CONFIG.GAME_DURATION

=============================================================================
